---- MODULE Spec2Model ----
(***************************************************************************)
(* A model of vx::func (src/func.hpp): a type-erased callable container    *)
(* with small-buffer storage, a per-type dispatcher (multiple_actions),    *)
(* a per-type trampoline (caller_for) and a plain-function-pointer fast    *)
(* path.  A container is the triple (data, call, actions) of func_base.    *)
(***************************************************************************)
EXTENDS Integers, FiniteSets, Sequences, TLC

(***************************************************************************)
(* Bounds of the model.                                                    *)
(***************************************************************************)
\* heap allocations (operator new) a behaviour may perform
MaxAllocs == 3
\* largest captured value of a callable; construction draws from 1..MaxVal
MaxVal == 2
\* invocation arguments are drawn from 0..MaxArg
MaxArg == 1
\* operations of a traced run
MaxOps == 7

(***************************************************************************)
(* Program constants.                                                      *)
(***************************************************************************)
\* alignof(std::max_align_t) on the x86-64 ABI, the default cfg.alignment
MaxAlignT == 16
\* the default inline capacity, configuration::func::SBO
DefaultSBO == 32
\* sizeof(void*), the bytes of memory_SBO::ptr
PtrSize == 8

\* the containers of a run, in the order they are declared, and those of
\* test1, which declares a third
Containers == {"a", "b"}
Test1Containers == {"a", "b", "c"}
Vals == 1..MaxVal
Args == 0..MaxArg
Addrs == 1..MaxAllocs

\* the signature R(Args...) a container is instantiated with: void() as in
\* the tests of src/test_func.cpp, or one with a result and an argument
VoidSig == [R |-> "void", Args |-> 0]
LongSig == [R |-> "long", Args |-> 1]
Signatures == {VoidSig, LongSig}
\* the arguments a call of the signature takes: none (written 0) or one value
ArgsOf(s) == IF s.Args = 0 THEN {0} ELSE Args

(***************************************************************************)
(* configuration::func, with its default member initialisers.              *)
(***************************************************************************)
func ==
    [ SBO |-> DefaultSBO,
      alignment |-> MaxAlignT,
      allow_return_type_conversion |-> TRUE,
      require_nothrow_relocatable |-> FALSE,
      require_nothrow_invocable |-> FALSE,
      require_nothrow_copyable |-> FALSE,
      require_const_invocable |-> FALSE,
      require_nothrow_movable |-> TRUE,
      optimize_for_func_ptrs |-> TRUE,
      enable_typeinfo |-> FALSE,
      can_be_empty |-> FALSE,
      check_empty |-> FALSE,
      allow_heap |-> TRUE,
      copyable |-> TRUE,
      movable |-> TRUE ]

with_const_invocable(c, state) == [c EXCEPT !.require_const_invocable = state]

has_empty_state(c) == c.can_be_empty \/ c.check_empty

(***************************************************************************)
(* The configurations of src/test_func.cpp and five more that switch the   *)
(* remaining options (fast path off, introspection on, empty in-place, no  *)
(* storage at all).                                                        *)
(***************************************************************************)
\* main: cfg
test_cfg == [func EXCEPT !.SBO = 16, !.check_empty = TRUE]
\* main: cfg2
test_cfg2 == [test_cfg EXCEPT !.SBO = 0, !.copyable = FALSE]
\* main: inplace_cfg of "non-copyable inplace func", a const signature
inplace_cfg == with_const_invocable([func EXCEPT !.copyable = FALSE, !.movable = FALSE], TRUE)
\* main: move_only_cfg2
move_only_cfg2 == [func EXCEPT !.require_nothrow_movable = FALSE, !.copyable = FALSE]
\* main: copy_and_move_cfg, require_nothrow_movable switched off
copy_move_cfg2 == [func EXCEPT !.require_nothrow_movable = FALSE]
\* main: empty_cfg
empty_cfg == [func EXCEPT !.can_be_empty = TRUE, !.check_empty = TRUE]
\* main: huge_inplace_cfg
huge_inplace_cfg == [func EXCEPT !.SBO = 100, !.allow_heap = FALSE, !.copyable = FALSE]
\* move_only_func alias (func.hpp), emptiness not checked
move_only_func == [func EXCEPT !.SBO = 48, !.can_be_empty = TRUE, !.copyable = FALSE]
\* a move-only empty_cfg without the function-pointer fast path
slow_empty_cfg == [empty_cfg EXCEPT !.optimize_for_func_ptrs = FALSE, !.copyable = FALSE]
\* an empty-capable in-place container without the fast path
slow_inplace_cfg ==
    [func EXCEPT !.optimize_for_func_ptrs = FALSE, !.can_be_empty = TRUE,
                 !.copyable = FALSE, !.movable = FALSE]
\* an in-place container with introspection enabled
typeinfo_cfg ==
    [func EXCEPT !.enable_typeinfo = TRUE, !.can_be_empty = TRUE, !.SBO = 16,
                 !.copyable = FALSE, !.movable = FALSE]

\* no inline capacity and no heap: only a plain function pointer fits
tiny_inplace_cfg == [func EXCEPT !.SBO = 0, !.allow_heap = FALSE]

Configs ==
    { test_cfg, test_cfg2, inplace_cfg, move_only_cfg2, copy_move_cfg2, empty_cfg,
      huge_inplace_cfg, move_only_func, slow_empty_cfg, slow_inplace_cfg, typeinfo_cfg,
      tiny_inplace_cfg }

(***************************************************************************)
(* Callable types: what sizeof, alignof and the type traits say of them.   *)
(* A type is a record; Ref(T) is the reference type T& that a forwarding   *)
(* reference deduces for an lvalue argument.                               *)
(***************************************************************************)
TypeNames == {"Counter", "Big", "Thrower", "Pinned"}

\* The callables log their constructions, moves, copies and destructions as
\* Test of test_func.cpp does, so none of them is trivially copyable; Big is
\* Test<100> itself (112 bytes, a copy constructor that may raise).
\* nothrow_move, nothrow_copy: the move and the copy constructor are
\* noexcept; is_ref: the type is an lvalue reference; const_call: operator()
\* is const (that of Test is not); mut: operator() advances the captured
\* value; trivial: the type is trivially copyable, moving or copying the
\* object copies its bytes
TypeOf(n) ==
    CASE n = "Counter" ->
           [name |-> n, size |-> 8, align |-> 8, nothrow_move |-> TRUE,
            move_ctor |-> TRUE, copy_ctor |-> TRUE, nothrow_copy |-> TRUE,
            mut |-> TRUE, const_call |-> FALSE, is_ref |-> FALSE, trivial |-> FALSE]
      [] n = "Big" ->
           [name |-> n, size |-> 112, align |-> 8, nothrow_move |-> TRUE,
            move_ctor |-> TRUE, copy_ctor |-> TRUE, nothrow_copy |-> FALSE,
            mut |-> FALSE, const_call |-> FALSE, is_ref |-> FALSE, trivial |-> FALSE]
      [] n = "Thrower" ->
           [name |-> n, size |-> 16, align |-> 8, nothrow_move |-> FALSE,
            move_ctor |-> TRUE, copy_ctor |-> TRUE, nothrow_copy |-> FALSE,
            mut |-> FALSE, const_call |-> TRUE, is_ref |-> FALSE, trivial |-> FALSE]
      [] n = "Pinned" ->
           [name |-> n, size |-> 8, align |-> 8, nothrow_move |-> FALSE,
            move_ctor |-> FALSE, copy_ctor |-> TRUE, nothrow_copy |-> TRUE,
            mut |-> FALSE, const_call |-> TRUE, is_ref |-> FALSE, trivial |-> FALSE]

\* the captured values a callable of the type is constructed with: Thrower
\* and Pinned compute a constant
ValsOf(n) == IF n \in {"Counter", "Big"} THEN Vals ELSE {1}

\* T&: sizeof and alignof are those of T; a reference is nothrow move and
\* copy constructible whatever T is
Ref(T) ==
    [T EXCEPT !.nothrow_move = TRUE, !.move_ctor = TRUE, !.copy_ctor = TRUE,
              !.nothrow_copy = TRUE, !.is_ref = TRUE]

\* the type of a plain function pointer to R(Args...)
FnPtr ==
    [name |-> "FnPtr", size |-> PtrSize, align |-> PtrSize, nothrow_move |-> TRUE,
     move_ctor |-> TRUE, copy_ctor |-> TRUE, nothrow_copy |-> TRUE, mut |-> FALSE,
     const_call |-> TRUE, is_ref |-> FALSE, trivial |-> TRUE]

\* the template argument F the constructor deduces: T for an rvalue, T& for an lvalue
Deduced(T, lvalue) == IF lvalue THEN Ref(T) ELSE T

(***************************************************************************)
(* func_base::is_sbo_eligible<F>                                           *)
(***************************************************************************)
\* a faulty predicate: a type of exactly the capacity is turned away
is_sbo_eligible_lt(c, F) ==
    /\ F.size < c.SBO
    /\ F.align <= c.alignment
    /\ c.alignment % F.align = 0
    /\ (~c.require_nothrow_movable \/ F.nothrow_move)

\* sizeof(F) <= cfg.SBO && alignof(F) <= cfg.alignment && ...
is_sbo_eligible(c, F) ==
    /\ F.size <= c.SBO
    /\ F.align <= c.alignment
    /\ c.alignment % F.align = 0
    /\ (~c.require_nothrow_movable \/ F.nothrow_move)

has_multiple_actions(c) == c.movable \/ c.copyable \/ c.enable_typeinfo
\* the dispatcher is declared noexcept
is_tagfunc_nothrow_movable(c) ==
    /\ (c.require_nothrow_movable \/ ~c.movable)
    /\ (c.require_nothrow_copyable \/ ~c.copyable)

(***************************************************************************)
(* The instrumented callable of src/test_func.cpp (struct Test) logs its   *)
(* constructions, copies, moves, calls and destructions.  An event names   *)
(* the operation, the type of the object and its captured value.  The      *)
(* destructor of a moved-from object logs nothing.                         *)
(***************************************************************************)
Ev(e, t, v) == [e |-> e, t |-> t, v |-> v]
DtorEv(t, v, moved) == IF moved THEN <<>> ELSE <<Ev("dtor", t, v)>>

(***************************************************************************)
(* detail::memory_SBO: the storage cell.  The cell does not record which   *)
(* view of it is live; the model records what the bytes really hold:       *)
(*   raw  indeterminate bytes (never written, or an object already         *)
(*        destroyed)                                                       *)
(*   obj  a live object of type t with captured value v, constructed in    *)
(*        place (m: it has been moved from; the move constructor leaves *)
(*        the source its value and marks it, as that of Test does)        *)
(*   ptr  a pointer to heap address a (0 is nullptr)                       *)
(***************************************************************************)
Raw == [k |-> "raw", t |-> "-", v |-> 0, m |-> FALSE, a |-> 0]
Obj(t, v) == [k |-> "obj", t |-> t, v |-> v, m |-> FALSE, a |-> 0]
Ptr(a) == [k |-> "ptr", t |-> "-", v |-> 0, m |-> FALSE, a |-> a]

\* the heap: every address is unallocated, live, freed, or freed twice
NoAlloc == [st |-> "unalloc", t |-> "-", v |-> 0]
FreeAddrs(heap) == {a \in Addrs : heap[a].st = "unalloc"}
CanAlloc(heap) == FreeAddrs(heap) # {}
\* operator new hands out the lowest address not used so far
NewAddr(heap) == CHOOSE a \in FreeAddrs(heap) : \A b \in FreeAddrs(heap) : a <= b
Alloc(heap, t, v) == [heap EXCEPT ![NewAddr(heap)] = [st |-> "live", t |-> t, v |-> v]]
\* operator delete: nothing for nullptr; a second delete of the same block
\* is a double free
Delete(heap, a) ==
    IF a = 0 THEN heap
    ELSE IF heap[a].st = "live" THEN [heap EXCEPT ![a] = [st |-> "freed", t |-> "-", v |-> 0]]
    ELSE IF heap[a].st = "freed" THEN [heap EXCEPT ![a].st = "freed2"]
    ELSE heap

\* ptr_to<F>(): the cell read as a pointer.  Bytes that are no pointer give
\* a wild pointer: any address w.
ptr_to(mem, w) == IF mem.k = "ptr" THEN mem.a ELSE w
\* as_sbo<F>(): the cell read as an object of type F
IsObjOf(mem, T) == mem.k = "obj" /\ mem.t = T.name
\* the outcome of a cell operation: the source cell, the target cell, the
\* heap, the undefined operation it ran into ("" for none), the events
Did(mem, dst, heap, ub, ev) == [mem |-> mem, dst |-> dst, heap |-> heap, ub |-> ub, ev |-> ev]
Done(mem, dst, heap, ub) == Did(mem, dst, heap, ub, <<>>)
\* a cell read through the view it was not written through (the members of
\* the union share their bytes): the first size bytes of the cell are
\* carried over as they are when they are all of what the cell holds, and
\* are garbage otherwise
Width(mem) ==
    IF mem.k = "ptr" THEN PtrSize ELSE IF mem.k = "obj" THEN TypeOf(mem.t).size ELSE 0
Punned(mem, size) == IF Width(mem) <= size THEN mem ELSE Raw
\* the bytes a constructor of T makes of a cell that holds no T
Mistook(T, mem) == IF T.trivial THEN Punned(mem, T.size) ELSE Raw

\* del_sbo<F>: as_sbo<F>().~F()
del_sbo(T, mem, dst, heap) ==
    IF IsObjOf(mem, T) THEN Did(Raw, dst, heap, "", DtorEv(T.name, mem.v, mem.m))
    ELSE Done(mem, dst, heap, "dtor_of_no_object")

\* del_ptr<F>: delete ptr_to<F>()
del_ptr(T, mem, dst, heap, w) ==
    LET p == ptr_to(mem, w) IN
    Did(mem, dst, Delete(heap, p),
        IF mem.k # "ptr" THEN "wild_delete"
        ELSE IF p # 0 /\ heap[p].st # "live" THEN "double_free" ELSE "",
        IF mem.k = "ptr" /\ p # 0 /\ heap[p].st = "live"
        THEN DtorEv(heap[p].t, heap[p].v, FALSE) ELSE <<>>)

\* move_into_sbo<F>: new(other) F(std::move(as_sbo<F>()))
move_into_sbo(T, mem, dst, heap) ==
    IF IsObjOf(mem, T)
    THEN Did([mem EXCEPT !.m = TRUE], Obj(T.name, mem.v), heap, "",
             <<Ev("move", T.name, mem.v)>>)
    ELSE Done(mem, Mistook(T, mem), heap, "move_of_no_object")

\* a faulty move of a heap-backed callable: a new object is moved from the
\* old one instead of the pointer being handed over
move_into_ptr_by_value(T, mem, dst, heap) ==
    IF mem.k = "ptr" /\ mem.a # 0 /\ heap[mem.a].st = "live" /\ CanAlloc(heap)
    THEN Did(mem, Ptr(NewAddr(heap)), Alloc(heap, heap[mem.a].t, heap[mem.a].v), "",
             <<Ev("move", heap[mem.a].t, heap[mem.a].v)>>)
    ELSE Done(Ptr(0), mem, heap, "")

\* move_into_ptr: other->ptr = ptr; ptr = nullptr
move_into_ptr(T, mem, dst, heap) ==
    IF mem.k = "ptr" THEN Done(Ptr(0), mem, heap, "")
    ELSE Done(Ptr(0), Punned(mem, PtrSize), heap, "move_of_no_pointer")

\* copy_into_sbo<F>: new(dest) F(as_sbo<F>())
copy_into_sbo(T, mem, dst, heap) ==
    IF IsObjOf(mem, T)
    THEN Did(mem, Obj(T.name, mem.v), heap, "", <<Ev("copy", T.name, mem.v)>>)
    ELSE Done(mem, Mistook(T, mem), heap, "copy_of_no_object")

\* a faulty copy: the copy shares the original's heap object
copy_into_ptr_shallow(T, mem, dst, heap, w) ==
    IF mem.k = "ptr" THEN Done(mem, mem, heap, "") ELSE Done(mem, Raw, heap, "bad_deref")

\* copy_into_ptr<F>: dest->ptr = new F(the object ptr_to<F>() points to)
copy_into_ptr(T, mem, dst, heap, w) ==
    LET p == ptr_to(mem, w)
        ok == mem.k = "ptr" /\ p # 0 /\ heap[p].st = "live"
    IN  IF p # 0 /\ heap[p].st \in {"live", "freed"}
        THEN Did(mem, Ptr(NewAddr(heap)), Alloc(heap, T.name, heap[p].v),
                 IF ok THEN "" ELSE "bad_deref",
                 IF ok THEN <<Ev("copy", T.name, heap[p].v)>> ELSE <<>>)
        ELSE Done(mem, Raw, heap, "bad_deref")

(***************************************************************************)
(* The dispatch table.  An operation reference (func_base::actions) is     *)
(*   null   nullptr                                                        *)
(*   noop   noop_actions                                                   *)
(*   dtor   dtor_action<T>       (a plain destroyer, p_cleanup)            *)
(*   multi  multiple_actions<T>  (the tagged dispatcher, p_tagfunc)        *)
(* An invocation reference (func_base::call) is                            *)
(*   null   nullptr                                                        *)
(*   fptr   a plain function pointer of the signature, t names the function *)
(*   caller caller_for<F> for a callable of type t; sbo is the view        *)
(*          as_invocable<F> takes of the cell: as_sbo (TRUE) or ptr_to      *)
(***************************************************************************)
\* the null pointer to a function
NullFn == "nullptr"
NullActions == [k |-> "null", t |-> "-"]
noop_actions == [k |-> "noop", t |-> "-"]
DtorAction(t) == [k |-> "dtor", t |-> t]
MultipleActions(t) == [k |-> "multi", t |-> t]
NullCall == [k |-> "null", t |-> "-", sbo |-> FALSE]
\* a faulty function pointer constructor: the pointer is taken for a trampoline
FptrCall_as_trampoline(fn) == [k |-> "caller", t |-> fn, sbo |-> FALSE]
\* the call reference made of a function pointer; a null pointer gives
\* the null reference
FptrCall(fn) ==
    IF fn = NullFn THEN NullCall ELSE [k |-> "fptr", t |-> fn, sbo |-> FALSE]
\* call{ static_cast<pointer to void()>(fptr) }: a static_cast between
\* pointers to functions of different types is ill-formed, so the
\* constructor from a function pointer compiles for the signature void() only
fptr_cast(s) == s = VoidSig
\* as_invocable<F> branches on is_sbo_eligible<F>, F the deduced type
as_invocable(c, T, lvalue) == is_sbo_eligible(c, Deduced(T, lvalue))
CallerFor(c, t, lvalue) ==
    [k |-> "caller", t |-> t, sbo |-> as_invocable(c, TypeOf(t), lvalue)]

\* a faulty destroy handler: the stored callable is left as it is
dtor_action_skips(c, T, mem, dst, heap, w) == Done(mem, dst, heap, "")

\* dtor_action<F>
dtor_action(c, T, mem, dst, heap, w) ==
    IF is_sbo_eligible(c, T) THEN del_sbo(T, mem, dst, heap)
    ELSE del_ptr(T, mem, dst, heap, w)

\* VX_UNREACHABLE(): the branch is compiled as if it could not be entered;
\* the build either falls out of the switch (u) or runs into the code of
\* the Dtor branch
Unreachable(c, T, mem, dst, heap, w, u) ==
    IF u THEN Done(mem, dst, heap, "unreachable")
    ELSE [dtor_action(c, T, mem, dst, heap, w) EXCEPT !.ub = "unreachable"]

\* what the introspection branches write to new_mem->ptr: the address of
\* the cell, and the address of typeid(F)
CellAddr == [k |-> "cell_addr", t |-> "-", v |-> 0, m |-> FALSE, a |-> 0]
TypeInfoAddr(t) == [k |-> "type_info", t |-> t, v |-> 0, m |-> FALSE, a |-> 0]

\* multiple_actions<F>
multiple_actions(c, T, cmd, mem, dst, heap, w, u) ==
    CASE cmd = "Dtor" -> dtor_action(c, T, mem, dst, heap, w)
      [] cmd = "Move" ->
           IF c.movable /\ T.move_ctor
           THEN IF is_sbo_eligible(c, T) THEN move_into_sbo(T, mem, dst, heap)
                ELSE move_into_ptr(T, mem, dst, heap)
           ELSE Unreachable(c, T, mem, dst, heap, w, u)
      [] cmd = "Copy" ->
           IF c.copyable /\ T.copy_ctor
           THEN IF is_sbo_eligible(c, T) THEN copy_into_sbo(T, mem, dst, heap)
                ELSE copy_into_ptr(T, mem, dst, heap, w)
           ELSE Unreachable(c, T, mem, dst, heap, w, u)
      [] cmd = "GetPtr" ->
           IF c.enable_typeinfo
           THEN IF is_sbo_eligible(c, T) THEN Done(mem, CellAddr, heap, "")
                ELSE Done(mem, Ptr(ptr_to(mem, w)), heap, "")
           ELSE Unreachable(c, T, mem, dst, heap, w, u)
      [] cmd = "TypeInfo" ->
           IF c.enable_typeinfo THEN Done(mem, TypeInfoAddr(T.name), heap, "")
           ELSE Unreachable(c, T, mem, dst, heap, w, u)

\* a call through the operation reference: actions(cmd, mem, new_mem)
CallActions(c, act, cmd, mem, dst, heap, w, u) ==
    CASE act.k = "noop" -> Done(mem, dst, heap, "")
      [] act.k = "multi" -> multiple_actions(c, TypeOf(act.t), cmd, mem, dst, heap, w, u)
      [] act.k = "dtor" -> dtor_action(c, TypeOf(act.t), mem, dst, heap, w)
      [] act.k = "null" -> Done(mem, dst, heap, "null_call")

\* the first undefined operation of a handler, "" when there is none
FirstUb(ubs) ==
    LET bad == {i \in DOMAIN ubs : ubs[i] # ""} IN
    IF bad = {} THEN "" ELSE ubs[CHOOSE i \in bad : \A j \in bad : i <= j]

\* func_base::move_into(mem): self.data is the source, mem the target
move_into(c, self, mem, heap, w, u) ==
    IF c.optimize_for_func_ptrs /\ self.actions.k = "null"
    THEN Done(self.data, mem, heap, "")
    ELSE CallActions(c, self.actions, "Move", self.data, mem, heap, w, u)

\* func_base::copy_into(mem)
copy_into(c, self, mem, heap, w, u) ==
    IF c.optimize_for_func_ptrs /\ self.actions.k = "null"
    THEN Done(self.data, mem, heap, "")
    ELSE CallActions(c, self.actions, "Copy", self.data, mem, heap, w, u)

\* what may stop the Copy branch of multiple_actions<F>: operator new raising
\* std::bad_alloc for a heap-backed callable, the copy constructor of F
\* raising an exception of its own
CopyFailures(c, T) ==
    (IF is_sbo_eligible(c, T) THEN {} ELSE {"bad_alloc"})
      \cup (IF T.nothrow_copy THEN {} ELSE {"copy_ctor_exception"})

\* where the exception goes: copy_into_sbo and copy_into_ptr are
\* noexcept(is_nothrow_copy_constructible_v<F>) and the dispatcher is
\* noexcept(is_tagfunc_nothrow_movable); an exception that leaves a noexcept
\* function ends the program through std::terminate
copy_raise(c, T, why) ==
    IF T.nothrow_copy \/ is_tagfunc_nothrow_movable(c) THEN "terminate" ELSE ""

\* a faulty reset: the held callable is forgotten, not destroyed
reset_forgets(c, self, heap, w, u) == Done(self.data, self.data, heap, "")

\* func_base::reset(): the result is (mem: the cell, heap, ub); the caller
\* sets call to nullptr and actions to noop_actions
reset(c, self, heap, w, u) ==
    IF c.optimize_for_func_ptrs /\ self.actions.k = "null"
    THEN Done(self.data, self.data, heap, "")
    ELSE IF self.actions.k # "null"
         THEN CallActions(c, self.actions, "Dtor", self.data, self.data, heap, w, u)
         ELSE Done(self.data, self.data, heap, "")

\* func_base::~func_base()
destructor(c, self, heap, w, u) ==
    IF c.optimize_for_func_ptrs /\ self.actions.k = "null"
    THEN Done(self.data, self.data, heap, "")
    ELSE IF ~has_multiple_actions(c)
         THEN CallActions(c, self.actions, "Dtor", self.data, self.data, heap, w, u)
         ELSE IF self.call.k = "null"
              THEN Done(self.data, self.data, heap, "")
              ELSE CallActions(c, self.actions, "Dtor", self.data, self.data, heap, w, u)

\* a faulty swap: the callable moved out of other never reaches this cell
swap_without_tmp(c, self, other, h, w, u) ==
    LET r1 == move_into(c, other, Raw, h, w, u)
        r2 == move_into(c, self, r1.mem, r1.heap, w, u)
    IN  [ self |-> [self EXCEPT !.call = other.call, !.actions = other.actions, !.data = r2.mem],
          other |-> [other EXCEPT !.call = self.call, !.actions = self.actions, !.data = r2.dst],
          heap |-> r2.heap,
          ub |-> FirstUb(<<r1.ub, r2.ub>>),
          ev |-> r1.ev \o r2.ev ]

\* func_base::swap(other), after the self-swap check: the two containers,
\* the heap, the first undefined operation and the events
swap(c, self, other, h, w, u) ==
    LET \* memory tmp; other.move_into(tmp)
        r1 == move_into(c, other, Raw, h, w, u)
        \* this->move_into(other.data)
        r2 == move_into(c, self, r1.mem, r1.heap, w, u)
        \* actions(Move, tmp, &data), skipped for a null actions on the fast path
        r3 == IF c.optimize_for_func_ptrs /\ self.actions.k = "null"
              THEN Done(r1.dst, r2.mem, r2.heap, "")
              ELSE CallActions(c, self.actions, "Move", r1.dst, r2.mem, r2.heap, w, u)
    IN  \* std::swap(call, other.call); std::swap(actions, other.actions)
        [ self |-> [self EXCEPT !.call = other.call, !.actions = other.actions, !.data = r3.dst],
          other |-> [other EXCEPT !.call = self.call, !.actions = self.actions, !.data = r2.dst],
          heap |-> r3.heap,
          ub |-> FirstUb(<<r1.ub, r2.ub, r3.ub>>),
          ev |-> r1.ev \o r2.ev \o r3.ev ]

(***************************************************************************)
(* Invocation.  The outcome of a call is a value, the bad_function_call    *)
(* exception, or a crash.  An undefined call (through a null or mistaken   *)
(* reference, or of bytes that hold no such object) may give any outcome.  *)
(***************************************************************************)
Val(r) == [k |-> "val", v |-> r]
BadFunctionCall == [k |-> "bad_function_call", v |-> 0]
Crash == [k |-> "crash", v |-> 0]
Undefined == {Val(r) : r \in 0..(MaxVal + MaxArg)} \cup {Crash}

\* the plain functions a pointer may name, and what they compute
FnNames == {"fn1", "fn2"}
\* the function pointers a container may be given
FnPtrs == FnNames \cup {NullFn}
FnVal(fn) == IF fn = "fn1" THEN 1 ELSE 2
\* a callable with captured value v, called with x
Apply(v, x) == v + x

\* caller_for<F>: the trampoline reads the cell the way as_invocable<F> says
caller_for(c, call, mem, heap, x) ==
    LET T == TypeOf(call.t) IN
    IF call.sbo
    THEN IF IsObjOf(mem, T) THEN {Val(Apply(mem.v, x))} ELSE Undefined
    ELSE IF mem.k = "ptr" /\ mem.a # 0 /\ heap[mem.a].st = "live" /\ heap[mem.a].t = T.name
         THEN {Val(Apply(heap[mem.a].v, x))}
         ELSE Undefined

\* the call through the invocation reference, after the emptiness check
Dispatch(c, self, heap, x) ==
    IF c.optimize_for_func_ptrs
    THEN IF self.actions.k = "null"
         THEN IF self.call.k = "fptr" THEN {Val(Apply(FnVal(self.call.t), x))} ELSE Undefined
         ELSE IF self.call.k = "caller" THEN caller_for(c, self.call, self.data, heap, x)
              ELSE Undefined
    ELSE IF self.call.k = "caller" THEN caller_for(c, self.call, self.data, heap, x)
         ELSE Undefined

\* a faulty operator(): the emptiness check is left out
call_operator_unchecked(c, self, heap, x) == Dispatch(c, self, heap, x)

\* func_base::operator(): the outcomes a call with argument x may have
call_operator(c, self, heap, x) ==
    IF c.check_empty /\ self.call.k = "null" THEN {BadFunctionCall}
    ELSE Dispatch(c, self, heap, x)

\* Introspection.  The outcome of target_type() is a type identity and that
\* of target<F>() a pointer: null, to the container's cell, or to the heap.
\* Reading through a null operation reference, or through the pointer that
\* noop_actions never wrote, may give any outcome.
TypeId(t) == [k |-> "type_info", v |-> 0, t |-> t]
NullPtr == [k |-> "nullptr", v |-> 0]
CellPtr == [k |-> "cell_ptr", v |-> 0]
HeapPtr(a) == [k |-> "heap_ptr", v |-> a]
TargetNames == TypeNames \cup {FnPtr.name}
UndefinedType == {TypeId(t) : t \in TargetNames} \cup {Crash}
UndefinedPtr == {NullPtr, CellPtr, Crash} \cup {HeapPtr(a) : a \in Addrs}

\* func_base::target_type(): ans is a fresh cell, filled by the TypeInfo
\* branch of the operation reference
target_type(c, self, heap) ==
    LET r == CallActions(c, self.actions, "TypeInfo", self.data, Raw, heap, 0, TRUE) IN
    IF r.ub = "" /\ r.dst.k = "type_info" THEN {TypeId(r.dst.t)} ELSE UndefinedType

\* func_base::target<F>(), F named by t
target(c, self, heap, t) ==
    LET r == CallActions(c, self.actions, "GetPtr", self.data, Raw, heap, 0, TRUE) IN
    IF target_type(c, self, heap) = UndefinedType THEN UndefinedPtr
    ELSE IF target_type(c, self, heap) # {TypeId(t)} THEN {NullPtr}
    ELSE IF r.ub # "" THEN UndefinedPtr
    ELSE IF r.dst.k = "cell_addr" THEN {CellPtr}
    ELSE IF r.dst.k = "ptr" /\ self.data.k = "ptr" THEN {HeapPtr(r.dst.a)}
    ELSE UndefinedPtr

\* func_base::operator bool
to_bool(self) == self.call.k # "null"

(***************************************************************************)
(* The reference callable container the tests run the same operations on   *)
(* (std::function): it owns at most one callable, which it constructs from *)
(* the argument, hands over by pointer on move and swap, duplicates on     *)
(* copy and destroys when it is destroyed or reassigned.                   *)
(***************************************************************************)
RefUnborn == [life |-> "none", k |-> "empty", t |-> "-", v |-> 0]
RefDead == [life |-> "dead", k |-> "empty", t |-> "-", v |-> 0]
RefEmpty == [life |-> "live", k |-> "empty", t |-> "-", v |-> 0]
RefObj(t, v) == [life |-> "live", k |-> "obj", t |-> t, v |-> v]
RefFptr(fn) == [life |-> "live", k |-> "fptr", t |-> fn, v |-> 0]
RefDid(ref, ev) == [ref |-> ref, ev |-> ev]
RefDtorEv(r) == IF r.k = "obj" THEN <<Ev("dtor", r.t, r.v)>> ELSE <<>>
RefCopyEv(r) == IF r.k = "obj" THEN <<Ev("copy", r.t, r.v)>> ELSE <<>>

ref_construct(ref, n, t, v, lvalue) ==
    RefDid([ref EXCEPT ![n] = RefObj(t, v)],
           IF lvalue THEN <<Ev("copy", t, v)>> ELSE <<Ev("ctor", t, v), Ev("move", t, v)>>)
ref_construct_fptr(ref, n, fn) ==
    RefDid([ref EXCEPT ![n] = IF fn = NullFn THEN RefEmpty ELSE RefFptr(fn)], <<>>)
ref_construct_empty(ref, n) == RefDid([ref EXCEPT ![n] = RefEmpty], <<>>)
ref_move_construct(ref, n, o) == RefDid([ref EXCEPT ![n] = ref[o], ![o] = RefEmpty], <<>>)
ref_move_assign(ref, n, o) ==
    IF n = o THEN RefDid(ref, <<>>)
    ELSE RefDid([ref EXCEPT ![n] = ref[o], ![o] = RefEmpty], RefDtorEv(ref[n]))
ref_copy_construct(ref, n, o) == RefDid([ref EXCEPT ![n] = ref[o]], RefCopyEv(ref[o]))
ref_copy_assign(ref, n, o) ==
    RefDid([ref EXCEPT ![n] = ref[o]], RefCopyEv(ref[o]) \o RefDtorEv(ref[n]))
ref_swap(ref, n, o) == RefDid([ref EXCEPT ![n] = ref[o], ![o] = ref[n]], <<>>)
ref_invoke(ref, n, x) ==
    IF ref[n].k = "obj"
    THEN RefDid(IF TypeOf(ref[n].t).mut THEN [ref EXCEPT ![n].v = @ + 1] ELSE ref,
                <<Ev("call", ref[n].t, ref[n].v)>>)
    ELSE RefDid(ref, <<>>)
ref_destroy(ref, n) == RefDid([ref EXCEPT ![n] = RefDead], RefDtorEv(ref[n]))

(***************************************************************************)
(* The state: the configuration and the signature the containers are       *)
(* instantiated with, the containers, the heap, a record of the last       *)
(* operation, and the log of a traced run.                                 *)
(***************************************************************************)
VARIABLES cfg, sig, f, heap, last, log

vars == <<cfg, sig, f, heap, last, log>>

\* a container: life is none (not yet constructed), live or dead (destroyed)
Unborn == [life |-> "none", call |-> NullCall, actions |-> NullActions, data |-> Raw]
Dead == [life |-> "dead", call |-> NullCall, actions |-> NullActions, data |-> Raw]
Live(call, actions, data) ==
    [life |-> "live", call |-> call, actions |-> actions, data |-> data]

\* what a caller can observe of a container: its boolean and, for every
\* argument, the outcomes a call may have
View(self, h) ==
    [ life |-> self.life,
      bool |-> self.life = "live" /\ to_bool(self),
      out |-> [x \in Args |-> IF self.life = "live" THEN call_operator(cfg, self, h, x) ELSE {}] ]

NoRes == [k |-> "none", v |-> 0]
\* a snapshot of the containers and the heap
Snap(ff, h) == [f |-> ff, heap |-> h]
NoSnap == Snap([n \in Containers |-> Unborn], [a \in Addrs |-> NoAlloc])
ViewIn(snap, n) == View(snap.f[n], snap.heap)

\* the last operation: op(a, b) with argument x, its result, the first
\* undefined operation it ran into, and for a swap how many times in a row
\* the same swap has run (sw) and the state before the first of them (pre0)
Repeats(op, a, b) ==
    op = "swap" /\ last.op = "swap" /\ last.a = a /\ last.b = b /\ last.sw = 1
Record(op, a, b, x, res, ub) ==
    [ op |-> op, a |-> a, b |-> b, x |-> x, res |-> res, ub |-> ub,
      sw |-> IF op # "swap" THEN 0 ELSE IF Repeats(op, a, b) THEN 2 ELSE 1,
      pre0 |-> IF op # "swap" THEN NoSnap
               ELSE IF Repeats(op, a, b) THEN last.pre0 ELSE Snap(f, heap) ]

\* the log of a traced run (on) of at most max operations: the operations,
\* the events of the containers, the reference containers and their
\* events.  A run that is not traced keeps the events of its last
\* operation only (step).
NoLog(on) ==
    [ on |-> on, max |-> MaxOps, ops |-> <<>>, ev |-> <<>>,
      ref |-> [n \in Containers |-> RefUnborn], rev |-> <<>>, step |-> <<>> ]
Trace(op, a, b, ev, r) ==
    /\ log.on => Len(log.ops) < log.max
    /\ log' = IF log.on
              THEN [ log EXCEPT !.ops = Append(log.ops, <<op, a, b>>), !.ev = log.ev \o ev,
                                !.ref = r.ref, !.rev = log.rev \o r.ev, !.step = ev ]
              ELSE [ log EXCEPT !.step = ev ]

\* the dispatcher of self reads its cell as a pointer although the cell
\* holds none (a wild pointer), or has no Move branch: the handler's
\* outcome is then a choice
HeapTyped(self) ==
    self.actions.k \in {"multi", "dtor"} /\ ~is_sbo_eligible(cfg, TypeOf(self.actions.t))
NoMoveBranch(self) ==
    self.actions.k = "multi" /\ ~(cfg.movable /\ TypeOf(self.actions.t).move_ctor)
Wilds(S) ==
    IF \E n \in S : (HeapTyped(f[n]) /\ f[n].data.k # "ptr") \/ NoMoveBranch(f[n])
    THEN 0..MaxAllocs ELSE {0}
Falls(S) == IF \E n \in S : NoMoveBranch(f[n]) THEN BOOLEAN ELSE {TRUE}
\* copying self allocates
Allocates(self) == self.actions.k = "multi" /\ HeapTyped(self)

\* Once an operation has run into undefined behaviour the program has no
\* defined continuation: its outcome is recorded and the behaviour ends.
Defined == last.ub = ""
\* the containers are declared in order: "a" is constructed first, "c" last
InOrder(n) ==
    /\ n = "b" => f["a"].life # "none"
    /\ n = "c" => f["b"].life # "none"

NoLast ==
    [ op |-> "init", a |-> "a", b |-> "a", x |-> 0, res |-> NoRes, ub |-> "",
      sw |-> 0, pre0 |-> NoSnap ]

\* the instantiations func<Signature, cfg> explored: every configuration
\* with the signature that takes an argument, and void() with the two
\* configurations the tests instantiate it with, with introspection and
\* with no storage
Instantiations ==
    (Configs \X {LongSig}) \cup
    ({test_cfg, test_cfg2, typeinfo_cfg, tiny_inplace_cfg} \X {VoidSig})

Init ==
    /\ \E i \in Instantiations : cfg = i[1] /\ sig = i[2]
    /\ f = [n \in Containers |-> Unborn]
    /\ heap = [a \in Addrs |-> NoAlloc]
    /\ last = NoLast
    /\ log = NoLog(FALSE)

(***************************************************************************)
(* Constructors.                                                           *)
(***************************************************************************)
\* func_base(F&& callable): t names the callable's type, v its captured
\* value; lvalue says the argument is an lvalue, so that F is deduced as T&.
\* What the body asks of F beyond the requires-clause: the trampoline calls
\* the object through the const-correct cell, so a const signature needs a
\* const operator() and, for F = T&, the pointer view of the cell
\* (as_sbo<T&>() const would cast const away and does not compile); the
\* static_asserts test the deduced F; and the stored object is copied or
\* moved from the argument.
StaticAsserts(c, T, lvalue) ==
    LET F == Deduced(T, lvalue) IN
    /\ c.require_const_invocable =>
         (T.const_call /\ (lvalue => ~as_invocable(c, T, lvalue)))
    /\ c.copyable => F.copy_ctor
    /\ c.movable => F.move_ctor
    /\ IF lvalue THEN T.copy_ctor ELSE T.move_ctor

\* a faulty constructor: the requires-clause is left out
Constructible_unchecked(c, T, lvalue) == StaticAsserts(c, T, lvalue)

\* requires (cfg.allow_heap || is_sbo_eligible<std::decay_t<F>>), and the body
Constructible(c, T, lvalue) ==
    /\ c.allow_heap \/ is_sbo_eligible(c, T)
    /\ StaticAsserts(c, T, lvalue)

\* the events of constructing the stored object: from a temporary, which
\* the caller's expression constructs first, or from an lvalue
StoredEv(t, v, lvalue) ==
    IF lvalue THEN <<Ev("copy", t, v)>> ELSE <<Ev("ctor", t, v), Ev("move", t, v)>>

Construct(n, t, v, lvalue) ==
    LET T == TypeOf(t)
        inl == is_sbo_eligible(cfg, T)
    IN  /\ Defined
        /\ InOrder(n)
        /\ f[n].life = "none"
        /\ v \in ValsOf(t)
        /\ Constructible(cfg, T, lvalue)
        /\ inl \/ CanAlloc(heap)
        /\ f' = [f EXCEPT ![n] =
                    Live(CallerFor(cfg, t, lvalue),
                         IF has_multiple_actions(cfg) THEN MultipleActions(t) ELSE DtorAction(t),
                         IF inl THEN Obj(t, v) ELSE Ptr(NewAddr(heap)))]
        /\ heap' = IF inl THEN heap ELSE Alloc(heap, t, v)
        /\ last' = Record("construct", n, n, 0, NoRes, "")
        /\ Trace("construct", n, n, StoredEv(t, v, lvalue),
                 ref_construct(log.ref, n, t, v, lvalue))
        /\ UNCHANGED <<cfg, sig>>

\* func_base(R fptr(Args...)), the plain function pointer constructor
ConstructFptr(n, fn) ==
    /\ Defined
    /\ InOrder(n)
    /\ f[n].life = "none"
    /\ cfg.optimize_for_func_ptrs
    /\ fptr_cast(sig)
    /\ f' = [f EXCEPT ![n] = Live(FptrCall(fn), NullActions, Raw)]
    /\ last' = Record("construct_fptr", n, n, 0, NoRes, "")
    /\ Trace("construct_fptr", n, n, <<>>, ref_construct_fptr(log.ref, n, fn))
    /\ UNCHANGED <<cfg, sig, heap>>

\* func_base() and func_base(std::nullptr_t), both pairs of overloads
ConstructEmpty(n, how) ==
    /\ Defined
    /\ InOrder(n)
    /\ f[n].life = "none"
    /\ cfg.can_be_empty
    /\ f' = [f EXCEPT ![n] =
                Live(NullCall,
                     IF cfg.copyable \/ cfg.movable THEN noop_actions ELSE NullActions,
                     Raw)]
    /\ last' = Record(how, n, n, 0, NoRes, "")
    /\ Trace(how, n, n, <<>>, ref_construct_empty(log.ref, n))
    /\ UNCHANGED <<cfg, sig, heap>>

(***************************************************************************)
(* Move, copy and swap.                                                    *)
(***************************************************************************)
\* func_base(func_base&& other) requires movable
MoveConstruct(n, o) ==
    /\ Defined
    /\ cfg.movable
    /\ n # o
    /\ f[n].life = "none"
    /\ f[o].life = "live"
    /\ \E w \in Wilds({o}), u \in Falls({o}) :
         LET r == move_into(cfg, f[o], Raw, heap, w, u) IN
         /\ f' = [f EXCEPT ![n] = Live(f[o].call, f[o].actions, r.dst),
                           ![o] = Live(NullCall, noop_actions, r.mem)]
         /\ heap' = r.heap
         /\ last' = Record("move_construct", n, o, 0, NoRes, r.ub)
         /\ Trace("move_construct", n, o, r.ev, ref_move_construct(log.ref, n, o))
    /\ UNCHANGED <<cfg, sig>>

\* func_base& operator=(func_base&& other) requires movable
MoveAssign(n, o) ==
    /\ Defined
    /\ cfg.movable
    /\ f[n].life = "live"
    /\ f[o].life = "live"
    /\ \E w \in Wilds({n, o}), u \in Falls({n, o}) :
         LET r1 == reset(cfg, f[n], heap, w, u)
             self1 == Live(NullCall, noop_actions, r1.mem)
             other == IF n = o THEN self1 ELSE f[o]
             r2 == move_into(cfg, other, self1.data, r1.heap, w, u)
         IN  /\ f' = IF n = o
                     THEN [f EXCEPT ![n] = Live(NullCall, noop_actions, r2.dst)]
                     ELSE [f EXCEPT ![n] = Live(other.call, other.actions, r2.dst),
                                    ![o] = Live(NullCall, noop_actions, r2.mem)]
             /\ heap' = r2.heap
             /\ last' = Record("move_assign", n, o, 0, NoRes, FirstUb(<<r1.ub, r2.ub>>))
             /\ Trace("move_assign", n, o, r1.ev \o r2.ev, ref_move_assign(log.ref, n, o))
    /\ UNCHANGED <<cfg, sig>>

\* func_base(func_base const& other) requires copyable
CopyConstruct(n, o) ==
    /\ Defined
    /\ cfg.copyable
    /\ n # o
    /\ f[n].life = "none"
    /\ f[o].life = "live"
    /\ Allocates(f[o]) => CanAlloc(heap)
    /\ \E w \in Wilds({o}), u \in Falls({o}) :
         LET r == copy_into(cfg, f[o], Raw, heap, w, u) IN
         /\ f' = [f EXCEPT ![n] = Live(f[o].call, f[o].actions, r.dst),
                           ![o].data = r.mem]
         /\ heap' = r.heap
         /\ last' = Record("copy_construct", n, o, 0, NoRes, r.ub)
         /\ Trace("copy_construct", n, o, r.ev, ref_copy_construct(log.ref, n, o))
    /\ UNCHANGED <<cfg, sig>>

\* func_base& operator=(func_base const& other) requires copyable
CopyAssign(n, o) ==
    /\ Defined
    /\ cfg.copyable
    /\ f[n].life = "live"
    /\ f[o].life = "live"
    /\ (n # o /\ Allocates(f[o])) => CanAlloc(heap)
    /\ \E w \in Wilds({n, o}), w2 \in Wilds({o}), u \in Falls({n, o}) :
         LET r1 == reset(cfg, f[n], heap, w, u)
             self1 == Live(NullCall, noop_actions, r1.mem)
             other == IF n = o THEN self1 ELSE f[o]
             r2 == copy_into(cfg, other, self1.data, r1.heap, w2, u)
         IN  /\ f' = IF n = o
                     THEN [f EXCEPT ![n] = Live(other.call, other.actions, r2.dst)]
                     ELSE [f EXCEPT ![n] = Live(other.call, other.actions, r2.dst),
                                    ![o].data = r2.mem]
             /\ heap' = r2.heap
             /\ last' = Record("copy_assign", n, o, 0, NoRes, FirstUb(<<r1.ub, r2.ub>>))
             /\ Trace("copy_assign", n, o, r1.ev \o r2.ev, ref_copy_assign(log.ref, n, o))
    /\ UNCHANGED <<cfg, sig>>

\* operator=(func_base const& other) when the duplication of other's callable
\* raises: reset() has run, copy_into() does not return.  A program ended by
\* std::terminate has no continuation either: it is recorded like an
\* undefined operation.
CopyAssignFails(n, o, why) ==
    /\ Defined
    /\ cfg.copyable
    /\ n # o
    /\ f[n].life = "live"
    /\ f[o].life = "live"
    /\ f[o].actions.k = "multi"
    /\ TypeOf(f[o].actions.t).copy_ctor
    /\ why \in CopyFailures(cfg, TypeOf(f[o].actions.t))
    /\ \E w \in Wilds({n}), u \in Falls({n}) :
         LET r1 == reset(cfg, f[n], heap, w, u)
             r2 == copy_raise(cfg, TypeOf(f[o].actions.t), why)
         IN  /\ f' = [f EXCEPT ![n] = Live(NullCall, noop_actions, r1.mem)]
             /\ heap' = r1.heap
             /\ last' = Record("copy_assign_failed", n, o, 0, [k |-> why, v |-> 0],
                               FirstUb(<<r1.ub, r2>>))
             /\ Trace("copy_assign_failed", n, o, r1.ev, RefDid(log.ref, <<>>))
    /\ UNCHANGED <<cfg, sig>>

\* void swap(func_base& other) requires movable
Swap(n, o) ==
    /\ Defined
    /\ cfg.movable
    /\ f[n].life = "live"
    /\ f[o].life = "live"
    /\ \E w \in Wilds({n, o}), u \in Falls({n, o}) :
         LET r == swap(cfg, f[n], f[o], heap, w, u) IN
         \* if (&other == this) return
         /\ f' = IF n = o THEN f ELSE [f EXCEPT ![n] = r.self, ![o] = r.other]
         /\ heap' = IF n = o THEN heap ELSE r.heap
         /\ last' = Record("swap", n, o, 0, NoRes, IF n = o THEN "" ELSE r.ub)
         /\ Trace("swap", n, o, IF n = o THEN <<>> ELSE r.ev, ref_swap(log.ref, n, o))
    /\ UNCHANGED <<cfg, sig>>

(***************************************************************************)
(* Invocation and destruction.                                             *)
(***************************************************************************)
\* the stored object a defined call runs on: "cell", "heap" or "none"
Target(self, h) ==
    IF self.call.k = "caller" /\ ~(cfg.optimize_for_func_ptrs /\ self.actions.k = "null")
       /\ Cardinality(caller_for(cfg, self.call, self.data, h, 0)) = 1
    THEN IF self.call.sbo THEN "cell" ELSE "heap"
    ELSE "none"

\* a call of a callable whose operator() advances its captured value
Mutates(self, h) == Target(self, h) # "none" /\ TypeOf(self.call.t).mut
Captured(self, h) == IF Target(self, h) = "cell" THEN self.data.v ELSE h[self.data.a].v
\* the event of the call, when a stored object is called: as Test does, an
\* object that has been moved from logs that it was called in that state
CallEv(self, h) ==
    IF Target(self, h) = "none" THEN <<>>
    ELSE IF Target(self, h) = "cell" /\ self.data.m
         THEN <<Ev("call_moved", self.call.t, Captured(self, h))>>
         ELSE <<Ev("call", self.call.t, Captured(self, h))>>

Call(op, n, x) ==
    /\ Defined
    /\ f[n].life = "live"
    /\ Mutates(f[n], heap) => Captured(f[n], heap) < MaxVal
    /\ \E res \in call_operator(cfg, f[n], heap, x) :
         last' = Record(op, n, n, x, res,
                        IF Cardinality(call_operator(cfg, f[n], heap, x)) > 1
                        THEN "undefined_call" ELSE "")
    /\ f' = IF Mutates(f[n], heap) /\ Target(f[n], heap) = "cell"
            THEN [f EXCEPT ![n].data.v = @ + 1] ELSE f
    /\ heap' = IF Mutates(f[n], heap) /\ Target(f[n], heap) = "heap"
               THEN [heap EXCEPT ![f[n].data.a].v = @ + 1] ELSE heap
    /\ Trace(op, n, n,
             IF cfg.check_empty /\ f[n].call.k = "null" THEN <<>> ELSE CallEv(f[n], heap),
             ref_invoke(log.ref, n, x))
    /\ UNCHANGED <<cfg, sig>>

\* R operator()(Args...)
Invoke(n, x) == Call("invoke", n, x)

\* R operator()(Args...) const requires require_const_invocable
InvokeConst(n, x) ==
    /\ cfg.require_const_invocable
    /\ Call("invoke_const", n, x)

\* ~func_base()
\* const std::type_info& target_type() const
TargetType(n) ==
    /\ Defined
    /\ cfg.enable_typeinfo
    /\ f[n].life = "live"
    /\ \E res \in target_type(cfg, f[n], heap) :
         last' = Record("target_type", n, n, 0, res,
                        IF Cardinality(target_type(cfg, f[n], heap)) > 1
                        THEN "undefined_call" ELSE "")
    /\ Trace("target_type", n, n, <<>>, RefDid(log.ref, <<>>))
    /\ UNCHANGED <<cfg, sig, f, heap>>

\* F* target<F>(), F named by t
TargetPtr(n, t) ==
    /\ Defined
    /\ cfg.enable_typeinfo
    /\ f[n].life = "live"
    /\ \E res \in target(cfg, f[n], heap, t) :
         last' = [F |-> t] @@
                 Record("target", n, n, 0, res,
                        IF Cardinality(target(cfg, f[n], heap, t)) > 1
                        THEN "undefined_call" ELSE "")
    /\ Trace("target", n, n, <<>>, RefDid(log.ref, <<>>))
    /\ UNCHANGED <<cfg, sig, f, heap>>

Destroy(n) ==
    /\ Defined
    /\ f[n].life = "live"
    /\ \E w \in Wilds({n}), u \in Falls({n}) :
         LET r == destructor(cfg, f[n], heap, w, u) IN
         /\ f' = [f EXCEPT ![n] = Dead]
         /\ heap' = r.heap
         /\ last' = Record("destroy", n, n, 0, NoRes, r.ub)
         /\ Trace("destroy", n, n, r.ev, ref_destroy(log.ref, n))
    /\ UNCHANGED <<cfg, sig>>

Next ==
    \/ \E n \in Containers, t \in TypeNames, v \in Vals, lvalue \in BOOLEAN :
         Construct(n, t, v, lvalue)
    \/ \E n \in Containers, fn \in FnPtrs : ConstructFptr(n, fn)
    \/ \E n \in Containers, how \in {"construct_default", "construct_nullptr"} :
         ConstructEmpty(n, how)
    \/ \E n, o \in Containers : MoveConstruct(n, o)
    \/ \E n, o \in Containers : MoveAssign(n, o)
    \/ \E n, o \in Containers : CopyConstruct(n, o)
    \/ \E n, o \in Containers : CopyAssign(n, o)
    \/ \E n, o \in Containers, why \in {"bad_alloc", "copy_ctor_exception"} :
         CopyAssignFails(n, o, why)
    \/ \E n, o \in Containers : Swap(n, o)
    \/ \E n \in Containers, x \in ArgsOf(sig) : Invoke(n, x)
    \/ \E n \in Containers, x \in ArgsOf(sig) : InvokeConst(n, x)
    \/ \E n \in Containers : TargetType(n)
    \/ \E n \in Containers, t \in TargetNames : TargetPtr(n, t)
    \/ \E n \in Containers : Destroy(n)

Spec == Init /\ [][Next]_vars

(***************************************************************************)
(* test3 of src/test_func.cpp under main's cfg2, with traced containers:   *)
(* containers are constructed from temporaries of the 100-byte type that   *)
(* carry distinct names, swapped, invoked and destroyed, and the reference *)
(* container runs the same operations.                                     *)
(***************************************************************************)
InitTest3 ==
    /\ cfg = test_cfg2
    /\ sig = VoidSig
    /\ f = [n \in Containers |-> Unborn]
    /\ heap = [a \in Addrs |-> NoAlloc]
    /\ last = NoLast
    /\ log = NoLog(TRUE)

Test3Construct(n, v) ==
    /\ \A m \in Containers : log.ref[m].v # v
    /\ Construct(n, "Big", v, FALSE)

NextTest3 ==
    \/ \E n \in Containers, v \in Vals : Test3Construct(n, v)
    \/ \E n, o \in Containers : n # o /\ Swap(n, o)
    \/ \E n \in Containers : Invoke(n, 0)
    \/ \E n \in Containers : Destroy(n)

SpecTest3 == InitTest3 /\ [][NextTest3]_vars

(***************************************************************************)
(* The static predicate is_sbo_eligible evaluated for a type under a       *)
(* configuration: the types and configurations of the trait checks of      *)
(* src/test_func.cpp, and those around them.                               *)
(***************************************************************************)
EligSizes == {1, 16, 32, 33, 99, 100, 101}
EligAligns == {1, 8, 16, 32}
EligSBOs == {0, 16, 32, 100}
EligAlignments == {8, 16, 32}
\* SmallTrouble, BiggerTrouble, AlignmentTrouble and NoTrouble are among them
EligTypes ==
    { [name |-> "T", size |-> s, align |-> a, nothrow_move |-> nt, move_ctor |-> TRUE,
       copy_ctor |-> TRUE, nothrow_copy |-> TRUE, mut |-> FALSE,
       const_call |-> TRUE, is_ref |-> FALSE,
       trivial |-> nt] :
      s \in EligSizes, a \in EligAligns, nt \in BOOLEAN }
\* move_only_cfg, move_only_cfg2, overaligned_cfg and huge_inplace_cfg are
\* among them, as far as the predicate reads them
EligConfigs ==
    { [func EXCEPT !.SBO = s, !.alignment = a, !.require_nothrow_movable = r,
                   !.copyable = FALSE] :
      s \in EligSBOs, a \in EligAlignments, r \in BOOLEAN }

InitEligible ==
    /\ cfg \in EligConfigs
    /\ sig = LongSig
    /\ f = [n \in Containers |-> Unborn]
    /\ heap = [a \in Addrs |-> NoAlloc]
    /\ last = NoLast
    /\ log = NoLog(FALSE)

\* vx::is_sbo_eligible<func<Signature, cfg>, F>
IsSboEligible(F) ==
    /\ last' = [op |-> "is_sbo_eligible", F |-> F, res |-> is_sbo_eligible(cfg, F)]
    /\ UNCHANGED <<cfg, sig, f, heap, log>>

NextEligible == \E F \in EligTypes : IsSboEligible(F)

SpecEligible == InitEligible /\ [][NextEligible]_vars

(***************************************************************************)
(* The members a configuration declares.  Each special member of func_base *)
(* carries a requires-clause over the configuration; a member whose clause *)
(* fails takes no part in overload resolution.                             *)
(***************************************************************************)
\* func_base() and func_base(std::nullptr_t): two overloads each, for a
\* container with and without the action table
has_default_ctor(c) ==
    \/ c.can_be_empty /\ (c.copyable \/ c.movable)
    \/ c.can_be_empty /\ ~(c.copyable \/ c.movable)
\* a faulty declaration: the move constructor is always there
has_move_ctor_always(c) == TRUE
\* func_base(func_base&&)
has_move_ctor(c) == c.movable
\* operator=(func_base&&)
has_move_assign(c) == c.movable
\* func_base(func_base const&)
has_copy_ctor(c) == c.copyable
\* operator=(func_base const&)
has_copy_assign(c) == c.copyable
\* swap(func_base&)
has_swap(c) == c.movable

\* overload resolution for an rvalue argument: the move member when it is
\* declared, otherwise the copy member, whose const& parameter binds to it
FromRvalue(move, copy) == IF move THEN "move" ELSE IF copy THEN "copy" ELSE "none"

\* noexcept(cfg.SBO == 0 || cfg.require_nothrow_movable) on both move
\* members; the copy members carry no noexcept
move_noexcept(c) == c.SBO = 0 \/ c.require_nothrow_movable

\* the configurations the traits are asked about: every combination of the
\* options the requires-clauses and noexcept-specifiers read
TraitConfigs ==
    { [func EXCEPT !.copyable = cp, !.movable = mv, !.can_be_empty = e, !.check_empty = e,
                   !.require_nothrow_movable = nt, !.SBO = s, !.optimize_for_func_ptrs = fp] :
        cp \in BOOLEAN, mv \in BOOLEAN, e \in BOOLEAN, nt \in BOOLEAN,
        s \in {0, DefaultSBO}, fp \in BOOLEAN }

InitTraits ==
    /\ cfg \in TraitConfigs
    /\ sig \in Signatures
    /\ f = [n \in Containers |-> Unborn]
    /\ heap = [a \in Addrs |-> NoAlloc]
    /\ last = NoLast
    /\ log = NoLog(FALSE)

\* a trait query: op names the trait, res is its value and by the member
\* overload resolution selects
Trait(op, res, by) ==
    /\ last' = [op |-> op, res |-> res, by |-> by]
    /\ UNCHANGED <<cfg, sig, f, heap, log>>

\* std::is_default_constructible_v<func<Signature, cfg>>
IsDefaultConstructible ==
    Trait("is_default_constructible", has_default_ctor(cfg),
          IF has_default_ctor(cfg) THEN "default" ELSE "none")
\* std::is_copy_constructible_v
IsCopyConstructible ==
    Trait("is_copy_constructible", has_copy_ctor(cfg),
          IF has_copy_ctor(cfg) THEN "copy" ELSE "none")
\* std::is_copy_assignable_v
IsCopyAssignable ==
    Trait("is_copy_assignable", has_copy_assign(cfg),
          IF has_copy_assign(cfg) THEN "copy" ELSE "none")
\* std::is_move_constructible_v
IsMoveConstructible ==
    LET by == FromRvalue(has_move_ctor(cfg), has_copy_ctor(cfg)) IN
    Trait("is_move_constructible", by # "none", by)
\* std::is_move_assignable_v
IsMoveAssignable ==
    LET by == FromRvalue(has_move_assign(cfg), has_copy_assign(cfg)) IN
    Trait("is_move_assignable", by # "none", by)
\* requires { a.swap(b); }
HasSwap ==
    Trait("swap", has_swap(cfg), IF has_swap(cfg) THEN "swap" ELSE "none")
\* std::is_nothrow_move_constructible_v
IsNothrowMoveConstructible ==
    LET by == FromRvalue(has_move_ctor(cfg), has_copy_ctor(cfg)) IN
    Trait("is_nothrow_move_constructible", by = "move" /\ move_noexcept(cfg), by)
\* std::is_nothrow_move_assignable_v
IsNothrowMoveAssignable ==
    LET by == FromRvalue(has_move_assign(cfg), has_copy_assign(cfg)) IN
    Trait("is_nothrow_move_assignable", by = "move" /\ move_noexcept(cfg), by)

NextTraits ==
    \/ IsDefaultConstructible
    \/ IsCopyConstructible
    \/ IsCopyAssignable
    \/ IsMoveConstructible
    \/ IsMoveAssignable
    \/ HasSwap
    \/ IsNothrowMoveConstructible
    \/ IsNothrowMoveAssignable

SpecTraits == InitTraits /\ [][NextTraits]_vars

(***************************************************************************)
(* test1 of src/test_func.cpp: f0, f1 and f2 are the containers a, b and   *)
(* c, built from temporaries of Test<100> with distinct names; the log of  *)
(* Test's special members is kept next to the log of the reference         *)
(* container for the same operations.                                      *)
(***************************************************************************)
InitTest1 ==
    /\ cfg = test_cfg
    /\ sig = VoidSig
    /\ f = [n \in Test1Containers |-> Unborn]
    /\ heap = [a \in Addrs |-> NoAlloc]
    /\ last = NoLast
    /\ log = [NoLog(TRUE) EXCEPT !.max = MaxOps + 2,
                                 !.ref = [n \in Test1Containers |-> RefUnborn]]

\* func f0 = Test<Sz>{"X"}; func f1 = Test<Sz>{"A"};
Test1Construct(n, v) ==
    /\ \A m \in Test1Containers : log.ref[m].v # v
    /\ Construct(n, "Big", v, FALSE)

\* f0(); f1(); each container is invoked once
Test1Invoke(n) ==
    /\ \A i \in 1..Len(log.ops) : log.ops[i] # <<"invoke", n, n>>
    /\ Invoke(n, 0)

\* the closing brace: f2, f1 and f0 are destroyed in this order
Test1Destroy(n) ==
    /\ \A m \in Test1Containers : f[m].life # "none"
    /\ n = "b" => f["c"].life = "dead"
    /\ n = "a" => f["b"].life = "dead"
    /\ Destroy(n)

NextTest1 ==
    \/ \E n \in Containers, v \in Vals : Test1Construct(n, v)
    \/ \E o \in Containers : CopyConstruct("c", o)
    \/ \E n \in Containers : MoveAssign(n, "c")
    \/ \E n \in Test1Containers : Test1Invoke(n)
    \/ \E n \in Test1Containers : Test1Destroy(n)

SpecTest1 == InitTest1 /\ [][NextTest1]_vars

(***************************************************************************)
(* Vocabulary of the properties.                                           *)
(***************************************************************************)
\* the container converts to boolean true
Bound(self) == self.life = "live" /\ to_bool(self)
\* every call of the container has one possible outcome
Definite(self, h) ==
    self.life = "live" /\ \A x \in Args : Cardinality(call_operator(cfg, self, h, x)) = 1
\* a container in one of the states of the specification: empty, or bound
\* with calls that have a defined outcome
Proper(self, h) == self.life = "live" /\ (to_bool(self) => Definite(self, h))
\* every call has one possible outcome, and it is the same on both sides
SameOut(o1, o2) ==
    \A x \in Args : o1[x] # {} /\ o2[x] # {} /\ \A r1 \in o1[x], r2 \in o2[x] : r1 = r2
\* a container now answers as another one did: the same boolean and, for a
\* boolean-true container, the same result of every call
Match(after, before) ==
    /\ after.bool = before.bool
    /\ before.bool => SameOut(after.out, before.out)
\* the step is the operation op with operands n and o
Step(ops, n, o) == last'.op \in ops /\ last'.a = n /\ last'.b = o /\ last' # last
\* the callable the container was given and still owns, where its
\* dispatcher keeps it: in the cell or behind the cell's pointer
Keeps(self, h) ==
    /\ self.life = "live"
    /\ self.actions.k \in {"multi", "dtor"}
    /\ self.call.k = "caller"
    /\ self.call.t = self.actions.t
    /\ IF is_sbo_eligible(cfg, TypeOf(self.actions.t))
       THEN IsObjOf(self.data, TypeOf(self.actions.t)) /\ ~self.data.m
       ELSE /\ self.data.k = "ptr" /\ self.data.a # 0
            /\ h[self.data.a].st = "live" /\ h[self.data.a].t = self.actions.t
Kept(self, h) ==
    IF is_sbo_eligible(cfg, TypeOf(self.actions.t)) THEN self.data.v ELSE h[self.data.a].v
\* the containers whose cell points to heap address a
Owners(a) == {n \in Containers : f[n].life = "live" /\ f[n].data.k = "ptr" /\ f[n].data.a = a}

(***************************************************************************)
(* C1.  After move-constructing B from a bound A, or move-assigning A into *)
(* an existing B, A converts to boolean false and invoking B gives exactly *)
(* the results invoking A gave before the move.  (A is taken with calls    *)
(* that have a defined result, B in any state.)                            *)
(***************************************************************************)
C1_MoveTransfers ==
    [][\A n, o \in Containers :
          (n # o /\ Bound(f[o]) /\ Definite(f[o], heap)
           /\ Step({"move_construct", "move_assign"}, n, o))
          => /\ ~to_bool(f'[o])
             /\ SameOut(View(f'[n], heap').out, View(f[o], heap).out)]_vars

(***************************************************************************)
(* C2.  After copying a bound container, invoking the copy gives the same  *)
(* results as invoking the original, the two cells hold separate objects,  *)
(* and an operation on one of two containers (a call that mutates it, its  *)
(* destruction, its reassignment) never changes what the other answers.    *)
(***************************************************************************)
C2_CopyEquivalentIndependent ==
    [][/\ \A n, o \in Containers :
            (n # o /\ Bound(f[o]) /\ Step({"copy_construct", "copy_assign"}, n, o))
            => /\ SameOut(View(f'[n], heap').out, View(f'[o], heap').out)
               /\ SameOut(View(f'[o], heap').out, View(f[o], heap).out)
               /\ ~(f'[n].data.k = "ptr" /\ f'[n].data.a # 0 /\ f'[n].data = f'[o].data)
       /\ \A n, m \in Containers :
            (n # m /\ f[m].life = "live"
             /\ Step({"invoke", "invoke_const", "destroy", "move_assign", "copy_assign"}, n, n))
            => View(f'[m], heap') = View(f[m], heap)]_vars

(***************************************************************************)
(* C3.  After a.swap(b) of two distinct containers, each empty or bound    *)
(* with defined calls, a holds b's original callable and boolean status    *)
(* and b holds a's: a answers as b did and b as a did.                     *)
(***************************************************************************)
C3_SwapExchanges ==
    [][\A n, o \in Containers :
          (n # o /\ Proper(f[n], heap) /\ Proper(f[o], heap) /\ Step({"swap"}, n, o))
          => /\ Match(View(f'[n], heap'), View(f[o], heap))
             /\ Match(View(f'[o], heap'), View(f[n], heap))]_vars

(***************************************************************************)
(* C4.  Swap is its own inverse: after a.swap(b) run twice in a row on two *)
(* distinct containers, each empty or bound with defined calls, both       *)
(* answer as they did before the first swap.                               *)
(***************************************************************************)
C4_SwapTwiceRestores ==
    (/\ last.sw = 2
     /\ last.a # last.b
     /\ \A n \in {last.a, last.b} : Proper(last.pre0.f[n], last.pre0.heap))
    => \A n \in {last.a, last.b} : Match(View(f[n], heap), ViewIn(last.pre0, n))

(***************************************************************************)
(* C5.  With inline capacity 0, copy disabled and move enabled, swapping   *)
(* two containers that hold distinct 100-byte heap-backed callables makes  *)
(* each answer as the other did, every later call returns what the         *)
(* callable now due in that container computes, and the events recorded    *)
(* equal those of the reference container for the same operations.         *)
(***************************************************************************)
C5_SwapHeapScenario ==
    /\ log.ev = log.rev
    /\ (last.op = "swap" /\ last.sw = 1 /\ last.a # last.b)
       => /\ Match(View(f[last.a], heap), ViewIn(last.pre0, last.b))
          /\ Match(View(f[last.b], heap), ViewIn(last.pre0, last.a))
    /\ last.op = "invoke"
       => last.res = Val(Apply(log.ref[last.a].v, last.x))

\* test3 has run to its end: X and A constructed, swapped, both invoked,
\* both destroyed in reverse order of declaration
C5_Witness ==
    /\ log.on
    /\ cfg.SBO = 0 /\ ~cfg.copyable /\ cfg.movable
    /\ log.ops = << <<"construct", "a", "a">>, <<"construct", "b", "b">>, <<"swap", "a", "b">>,
                    <<"invoke", "a", "a">>, <<"invoke", "b", "b">>,
                    <<"destroy", "b", "b">>, <<"destroy", "a", "a">> >>
    /\ log.ev = << Ev("ctor", "Big", 1), Ev("move", "Big", 1),
                   Ev("ctor", "Big", 2), Ev("move", "Big", 2),
                   Ev("call", "Big", 2), Ev("call", "Big", 1),
                   Ev("dtor", "Big", 1), Ev("dtor", "Big", 2) >>

(***************************************************************************)
(* C6.  In every state reached by defined operations each live heap        *)
(* allocation is referenced by the storage cell of exactly one container.  *)
(***************************************************************************)
C6_ExclusiveOwner ==
    Defined => \A a \in Addrs : heap[a].st = "live" => Cardinality(Owners(a)) = 1

(***************************************************************************)
(* C7.  Once every container has been destroyed (by defined operations),   *)
(* every heap allocation made for a callable has been released exactly     *)
(* once: none is live and none has been released twice.                    *)
(***************************************************************************)
C7_AllReleasedOnce ==
    (Defined /\ \A n \in Containers : f[n].life = "dead")
    => \A a \in Addrs : heap[a].st \in {"unalloc", "freed"}

(***************************************************************************)
(* C8.  With check_empty set, invoking a container that holds no callable  *)
(* raises bad_function_call, calls nothing and leaves the container, the   *)
(* other container and the heap as they were.                              *)
(***************************************************************************)
C8_EmptyCallRaises ==
    [][\A n \in Containers :
          (cfg.check_empty /\ f[n].life = "live" /\ ~to_bool(f[n])
           /\ Step({"invoke", "invoke_const"}, n, n))
          => /\ last'.res = BadFunctionCall
             /\ last'.ub = ""
             /\ f' = f
             /\ heap' = heap]_vars

\* an invocation of the source of a move has raised bad_function_call: the
\* configuration has no empty state a constructor could produce
C8_Witness ==
    /\ last.op \in {"invoke", "invoke_const"}
    /\ last.res = BadFunctionCall
    /\ ~cfg.can_be_empty
    /\ f[last.a].actions = noop_actions
    /\ \E m \in Containers : m # last.a /\ Bound(f[m])

(***************************************************************************)
(* C9.  Invoking a bound container returns the value its stored callable   *)
(* returns for the arguments, for every placement and configuration,       *)
(* through operator() and through operator() const.                        *)
(***************************************************************************)
C9_InvokeReturnsStored ==
    [][\A n \in Containers :
          (Keeps(f[n], heap) /\ Step({"invoke", "invoke_const"}, n, n))
          => last'.res = Val(Apply(Kept(f[n], heap), last'.x))]_vars

(***************************************************************************)
(* C10.  is_sbo_eligible<T> under C is true exactly when size(T) <= C.SBO, *)
(* alignment(T) <= C.alignment, C.alignment is a multiple of alignment(T)  *)
(* and C.require_nothrow_movable is false or T is nothrow move             *)
(* constructible.  A type that is not nothrow movable and fits is          *)
(* ineligible exactly while require_nothrow_movable is set; an             *)
(* over-aligned type that fits is eligible once the configured alignment   *)
(* is its alignment; a 100-byte type that fits otherwise is eligible       *)
(* exactly when the capacity is at least 100.                              *)
(***************************************************************************)
C10_EligibleIff ==
    last.op = "is_sbo_eligible" =>
        LET T == last.F
            fits == T.size <= cfg.SBO
            aligned == T.align <= cfg.alignment /\ cfg.alignment % T.align = 0
            movable == ~cfg.require_nothrow_movable \/ T.nothrow_move
        IN  /\ last.res <=> (fits /\ aligned /\ movable)
            /\ (~T.nothrow_move /\ fits /\ aligned)
               => (last.res <=> ~cfg.require_nothrow_movable)
            /\ (T.align > MaxAlignT /\ cfg.alignment = T.align /\ fits /\ movable)
               => last.res
            /\ (T.align > MaxAlignT /\ cfg.alignment = MaxAlignT) => ~last.res
            /\ (T.size = 100 /\ aligned /\ movable) => (last.res <=> cfg.SBO >= 100)

\* BiggerTrouble under huge_inplace_cfg: a 100-byte type in a capacity of
\* exactly 100 is eligible
C10_Witness ==
    /\ last.op = "is_sbo_eligible"
    /\ last.F.size = 100 /\ last.F.align = 1
    /\ cfg.SBO = 100 /\ cfg.alignment = MaxAlignT /\ cfg.require_nothrow_movable
    /\ last.res

(***************************************************************************)
(* C11.  A container allocates exactly when the callable it is given is    *)
(* not eligible for inline storage: at construction and on every copy of a *)
(* container that holds such a callable; no other operation allocates.     *)
(***************************************************************************)
\* the heap addresses operator new has handed out
Allocated(h) == {a \in Addrs : h[a].st # "unalloc"}
\* the type of the callable the container's handlers were bound for
HeldType(self) == TypeOf(self.actions.t)
\* the step from a callable object, a copy, or any operation that is
\* neither a construction nor a copy
C11_Lifecycle(n, o) ==
    /\ Step({"construct"}, n, o) =>
         (Allocated(heap') # Allocated(heap) <=> ~is_sbo_eligible(cfg, HeldType(f'[n])))
    /\ (Step({"copy_construct", "copy_assign"}, n, o) /\ last'.ub = "") =>
         (Allocated(heap') # Allocated(heap) <=>
            (n # o /\ f[o].actions.k = "multi" /\ ~is_sbo_eligible(cfg, HeldType(f[o]))))
    /\ Step({"construct_default", "construct_nullptr", "move_construct", "move_assign",
             "swap", "invoke", "invoke_const", "destroy"}, n, o) =>
         Allocated(heap') = Allocated(heap)

\* C11 (as amended): for every callable type that is not a plain function
\* pointer taken by the fast-path constructor, the type is eligible if and
\* only if the container that holds it never allocates; a plain function
\* pointer on the fast path never allocates, eligible or not.
C11_EligibleIffNoAllocation ==
    [][\A n, o \in Containers :
         /\ C11_Lifecycle(n, o)
         /\ Step({"construct_fptr"}, n, o) => Allocated(heap') = Allocated(heap)]_vars

\* C11 (as stated): for all callable types, the plain function pointer
\* included, the type is eligible if and only if the container never
\* allocates.
C11_Original ==
    [][\A n, o \in Containers :
         /\ C11_Lifecycle(n, o)
         /\ Step({"construct_fptr"}, n, o) =>
              (Allocated(heap') # Allocated(heap) <=> ~is_sbo_eligible(cfg, FnPtr))]_vars

\* a container that holds a callable on the heap has been copied: the
\* copy made a second allocation
C11_Witness ==
    /\ last.op = "copy_construct"
    /\ last.ub = ""
    /\ Keeps(f[last.a], heap) /\ Keeps(f[last.b], heap)
    /\ ~is_sbo_eligible(cfg, HeldType(f[last.b]))
    /\ Cardinality({a \in Addrs : heap[a].st = "live"}) = 2

(***************************************************************************)
(* C12.  Construction from a callable is offered exactly when the          *)
(* configuration allows the heap or the callable is eligible for inline    *)
(* storage, and a configuration without the heap never allocates.          *)
(***************************************************************************)
\* container n is yet to be constructed and it is its turn
Constructing(n) == Defined /\ f[n].life = "none" /\ InOrder(n)
\* the forwarding constructor accepts a callable of type t exactly when the
\* heap is allowed or the type is eligible
C12_Forwarding(n) ==
    \A t \in TypeNames, lvalue \in BOOLEAN :
      (Constructing(n) /\ CanAlloc(heap) /\ StaticAsserts(cfg, TypeOf(t), lvalue)) =>
        (ENABLED Construct(n, t, 1, lvalue) <=>
           (cfg.allow_heap \/ is_sbo_eligible(cfg, TypeOf(t))))

\* C12 (as amended): construction from a callable object is available
\* exactly when the heap is allowed or its type is eligible, and under a
\* configuration without the heap no operation ever allocates; a plain
\* function pointer on the fast path is accepted whatever its eligibility.
C12_HeapOrEligible ==
    /\ \A n \in Containers : C12_Forwarding(n)
    /\ ~cfg.allow_heap => Allocated(heap) = {}

\* C12 (as stated): construction from any callable, the plain function
\* pointer included, is available exactly when the heap is allowed or its
\* type is eligible, and a configuration without the heap never allocates.
C12_Original ==
    /\ \A n \in Containers :
         /\ C12_Forwarding(n)
         /\ Constructing(n) =>
              (ENABLED ConstructFptr(n, "fn1") =>
                 (cfg.allow_heap \/ is_sbo_eligible(cfg, FnPtr)))
    /\ ~cfg.allow_heap => Allocated(heap) = {}

\* without the heap and with 100 bytes of inline storage a callable was
\* constructed in place, and for the next container an eligible callable is
\* accepted while Test<100>, which has 112 bytes, is refused
C12_Witness ==
    /\ ~cfg.allow_heap /\ cfg.SBO = 100
    /\ last.op = "construct" /\ last.a = "a"
    /\ Keeps(f["a"], heap) /\ f["a"].data.k = "obj"
    /\ Constructing("b")
    /\ ENABLED Construct("b", "Counter", 1, FALSE)
    /\ ~ENABLED Construct("b", "Big", 1, FALSE)

(***************************************************************************)
(* C13.  The public operations exist as the configuration grants them.     *)
(***************************************************************************)
\* copy construction and copy assignment exist exactly when copyable is set,
\* swap exactly when movable is set, default construction exactly when
\* can_be_empty is set
C13_Granted ==
    /\ last.op \in {"is_copy_constructible", "is_copy_assignable"} => (last.res <=> cfg.copyable)
    /\ last.op = "swap" => (last.res <=> cfg.movable)
    /\ last.op = "is_default_constructible" => (last.res <=> cfg.can_be_empty)

\* C13 (as amended): copy construction and copy assignment are available
\* exactly when copyable is set, swap exactly when movable is set, default
\* construction exactly when can_be_empty is set; the move constructor and
\* the move assignment operator are selected exactly when movable is set,
\* and construction or assignment from an rvalue is available exactly when
\* movable or copyable is set, as a copy when only copyable is.
C13_OperationsAsGranted ==
    /\ C13_Granted
    /\ last.op \in {"is_move_constructible", "is_move_assignable"} =>
         /\ last.res <=> (cfg.movable \/ cfg.copyable)
         /\ last.by = "move" <=> cfg.movable
         /\ last.by = "copy" <=> (cfg.copyable /\ ~cfg.movable)

\* C13 (as stated): copy construction and copy assignment are available
\* exactly when copyable is set, move construction, move assignment and swap
\* exactly when movable is set, default construction exactly when
\* can_be_empty is set.
C13_Original ==
    /\ C13_Granted
    /\ last.op \in {"is_move_constructible", "is_move_assignable"} => (last.res <=> cfg.movable)

\* a copyable container that is not movable is asked whether it can be
\* constructed from an rvalue: it can, through its copy constructor
C13_Witness ==
    /\ last.op = "is_move_constructible"
    /\ cfg.copyable /\ ~cfg.movable
    /\ last.res /\ last.by = "copy"

(***************************************************************************)
(* C14.  The container of empty_cfg.                                       *)
(***************************************************************************)
\* C14: with can_be_empty and check_empty set and every other option at its
\* default the container is default-constructible, move-constructible and
\* move-assignable, and neither copy-constructible nor copy-assignable.
C14_EmptyCfgNotCopyable ==
    cfg = empty_cfg =>
      /\ last.op \in {"is_default_constructible", "is_move_constructible",
                      "is_move_assignable"} => last.res
      /\ last.op \in {"is_copy_constructible", "is_copy_assignable"} => ~last.res

(***************************************************************************)
(* C15.  test1 under the configuration of main: inline capacity 16,        *)
(* movable and copyable, emptiness checked.                                *)
(***************************************************************************)
\* the operations of test1, in order, up to the k-th
Test1Ops ==
    << <<"construct", "a", "a">>, <<"construct", "b", "b">>, <<"copy_construct", "c", "b">>,
       <<"move_assign", "a", "c">>, <<"invoke", "a", "a">>, <<"invoke", "b", "b">>,
       <<"destroy", "c", "c">>, <<"destroy", "b", "b">>, <<"destroy", "a", "a">> >>

\* C15: constructing a first container from a 100-byte object X and a
\* second from a 100-byte object A, copying the second into a third,
\* move-assigning the third into the first and invoking the first and the
\* second makes both invocations succeed, and the sequence of construct,
\* copy, move, invoke and destroy events equals that of the reference
\* container for the same operations; more generally an invocation fails
\* exactly when the reference container is empty.
C15_Test1Scenario ==
    /\ log.ev = log.rev
    /\ last.op = "invoke" =>
         /\ last.res = BadFunctionCall <=> log.ref[last.a].k # "obj"
         /\ log.ref[last.a].k = "obj" => last.res = Val(Apply(log.ref[last.a].v, last.x))
    /\ (\E k \in {5, 6} : log.ops = SubSeq(Test1Ops, 1, k)) => last.res.k = "val"

\* test1 has run to its end: X was destroyed by the move assignment, both
\* invocations called the copy of A and A, the moved-from temporaries and
\* the moved-from third container logged nothing, and the scope was left in
\* reverse order of declaration
C15_Witness ==
    /\ log.on
    /\ cfg.SBO = 16 /\ cfg.copyable /\ cfg.movable /\ cfg.check_empty
    /\ log.ops = Test1Ops
    /\ log.ev = << Ev("ctor", "Big", 1), Ev("move", "Big", 1),
                   Ev("ctor", "Big", 2), Ev("move", "Big", 2),
                   Ev("copy", "Big", 2), Ev("dtor", "Big", 1),
                   Ev("call", "Big", 2), Ev("call", "Big", 2),
                   Ev("dtor", "Big", 2), Ev("dtor", "Big", 2) >>
    /\ \A a \in Addrs : heap[a].st # "live"

(***************************************************************************)
(* C16.  A plain function pointer and a capturing lambda that computes the *)
(* same function.                                                          *)
(***************************************************************************)
\* the container holds a pointer to the plain function fn
HoldsFptr(self, fn) == self.life = "live" /\ self.call = FptrCall(fn)
\* the container keeps a lambda whose call does not change it and which
\* computes what the plain function fn computes
KeepsSameAs(self, h, fn) ==
    /\ Keeps(self, h)
    /\ ~HeldType(self).mut
    /\ Kept(self, h) = FnVal(fn)

\* C16: a container built from a plain function pointer and a container
\* built from a capturing lambda that computes the same function give the
\* same result for every argument, in every state that construction, copy,
\* move and move assignment lead to.
C16_FptrAndLambdaAgree ==
    \A n, m \in Containers, fn \in FnNames :
      (Defined /\ HoldsFptr(f[n], fn) /\ KeepsSameAs(f[m], heap, fn)) =>
        \A x \in ArgsOf(sig) :
          /\ call_operator(cfg, f[n], heap, x) = {Val(Apply(FnVal(fn), x))}
          /\ call_operator(cfg, f[m], heap, x) = call_operator(cfg, f[n], heap, x)

(***************************************************************************)
(* C17.  Construction from a plain function pointer on the fast path.      *)
(***************************************************************************)
\* C17: with the fast path enabled, construction from a plain function
\* pointer of the exact signature is available for every inline capacity
\* and with or without the heap, leaves the storage cell untouched and
\* allocates nothing.
C17_FptrAlwaysConstructible ==
    \A n \in Containers :
      /\ (Constructing(n) /\ cfg.optimize_for_func_ptrs) =>
           \A fn \in FnNames : ENABLED ConstructFptr(n, fn)
      /\ (last.op = "construct_fptr" /\ last.a = n) =>
           /\ f[n].data = Raw /\ f[n].actions = NullActions
           /\ \A a \in Addrs : heap[a].st = "live" => Owners(a) # {}

(***************************************************************************)
(* C18.  Introspection of a container that holds a callable.               *)
(***************************************************************************)
\* the name of the concrete type the container holds: a callable object's
\* type, or the plain function pointer type
HeldName(self) == IF self.call.k = "fptr" THEN FnPtr.name ELSE self.actions.t
\* the container holds a callable: inline, on the heap, or as a fast-path
\* plain function pointer
HoldsCallable(self, h) == Keeps(self, h) \/ \E fn \in FnNames : HoldsFptr(self, fn)
\* where the stored value of a container that keeps an object lives
StoredAt(self) ==
    IF is_sbo_eligible(cfg, HeldType(self)) THEN CellPtr ELSE HeapPtr(self.data.a)

\* C18: with introspection enabled, for every container that holds a
\* callable target_type() returns the type identity of the stored callable,
\* and target<F>() returns a pointer to the live stored value when F is
\* that type and a null pointer for every other F.
C18_TargetIdentifiesStored ==
    (last.op \in {"target_type", "target"} /\ HoldsCallable(f[last.a], heap)) =>
      LET self == f[last.a] IN
      /\ last.ub = ""
      /\ last.op = "target_type" => last.res = TypeId(HeldName(self))
      /\ (last.op = "target" /\ last.F # HeldName(self)) => last.res = NullPtr
      /\ (last.op = "target" /\ last.F = HeldName(self)) =>
           /\ last.res \in {CellPtr} \cup {HeapPtr(a) : a \in Addrs}
           /\ Keeps(self, heap) => last.res = StoredAt(self)

(***************************************************************************)
(* C19.  Non-throwing container moves.                                     *)
(***************************************************************************)
\* the events of the step are moves of nothrow-movable callables only
NothrowMoves(step) ==
    \A i \in 1..Len(step) : step[i].e = "move" => TypeOf(step[i].t).nothrow_move

\* C19: the container's move constructor and move assignment are declared
\* non-throwing exactly when the inline capacity is 0 or
\* require_nothrow_movable is set, and under every such configuration no
\* container move runs a callable's move constructor that may throw: a
\* callable whose move may throw is on the heap, and the move hands over
\* the pointer to it.
C19_NothrowMove ==
    [][\A n, o \in Containers :
         (Step({"move_construct", "move_assign"}, n, o) /\ last'.ub = "") =>
           /\ move_noexcept(cfg) <=> (cfg.SBO = 0 \/ cfg.require_nothrow_movable)
           /\ move_noexcept(cfg) =>
                /\ NothrowMoves(log'.step)
                /\ (n # o /\ Keeps(f[o], heap) /\ ~HeldType(f[o]).nothrow_move) =>
                     /\ f[o].data.k = "ptr"
                     /\ f'[n].data = f[o].data
                     /\ heap'[f[o].data.a] = heap[f[o].data.a]
                     /\ \A i \in 1..Len(log'.step) : log'.step[i].e # "move"]_vars

\* a 16-byte callable whose move constructor may throw, in a container with
\* enough inline capacity that requires non-throwing moves: it is on the
\* heap, and the container that was move-constructed from its container
\* now has it
C19_Witness ==
    /\ last.op = "move_construct" /\ last.ub = "" /\ last.a # last.b
    /\ cfg.require_nothrow_movable /\ cfg.SBO >= 16
    /\ Keeps(f[last.a], heap)
    /\ HeldType(f[last.a]).name = "Thrower"
    /\ f[last.a].data.k = "ptr"
    /\ ~to_bool(f[last.b])

(***************************************************************************)
(* C20.  Copy assignment, self-assignment included.                        *)
(***************************************************************************)
\* C20: for every copy assignment a = b of a bound b, a and b the same
\* container included, b still answers afterwards as it did before, and a
\* answers as b did before from a callable of its own.
C20_CopyAssignKeepsSource ==
    [][\A n, o \in Containers :
         (Bound(f[o]) /\ Definite(f[o], heap) /\ Step({"copy_assign"}, n, o)) =>
           /\ Match(View(f'[o], heap'), View(f[o], heap))
           /\ Match(View(f'[n], heap'), View(f[o], heap))
           /\ (n # o /\ f'[n].data.k = "ptr" /\ f'[o].data.k = "ptr") =>
                f'[n].data.a # f'[o].data.a]_vars

(***************************************************************************)
(* C21.  Move assignment destroys what the target held, first and once.    *)
(***************************************************************************)
\* the destructor events among the events of a step
Dtors(step) == {i \in 1..Len(step) : step[i].e = "dtor"}

\* C21: on move assignment the callable the target held is destroyed (its
\* destructor run inline, or its heap allocation released) exactly once and
\* before anything of the source is transferred; after a defined move
\* assignment no second destructor has run and no callable has been made.
C21_MoveAssignDestroysFirst ==
    [][\A n, o \in Containers :
         (Step({"move_assign"}, n, o) /\ Keeps(f[n], heap)) =>
           /\ Len(log'.step) >= 1
           /\ log'.step[1] = Ev("dtor", f[n].actions.t, Kept(f[n], heap))
           /\ f[n].data.k = "ptr" => heap'[f[n].data.a].st = "freed"
           /\ last'.ub = "" =>
                /\ Dtors(log'.step) = {1}
                /\ \A a \in Addrs : heap'[a].st = "live" => heap[a].st = "live"]_vars

\* a container that kept a heap-backed callable has been move-assigned from
\* another one that kept a heap-backed callable: the old allocation is
\* released, the only event of the step is its destructor, and the target
\* keeps the callable of the source
C21_Witness ==
    /\ last.op = "move_assign" /\ last.a # last.b /\ last.ub = ""
    /\ Len(log.step) = 1 /\ log.step[1].e = "dtor"
    /\ Keeps(f[last.a], heap) /\ f[last.a].data.k = "ptr"
    /\ Kept(f[last.a], heap) # log.step[1].v
    /\ Cardinality({a \in Addrs : heap[a].st = "freed"}) = 1
    /\ ~to_bool(f[last.b])

(***************************************************************************)
(* C22.  One interpretation of the storage cell.                           *)
(***************************************************************************)
\* the placement the constructor chose: the cell holds the object itself
\* (TRUE) or a pointer to it
PlacedInline(self) == self.data.k = "obj"

\* C22: for every callable type and every way of constructing a container
\* from it, the trampoline and the destroy, move and copy handlers read the
\* cell the way the constructor populated it.
C22_OneInterpretation ==
    \A n \in Containers :
      (last.op = "construct" /\ last.a = n /\ f[n].call.k = "caller") =>
        /\ f[n].call.sbo <=> PlacedInline(f[n])
        /\ is_sbo_eligible(cfg, HeldType(f[n])) <=> PlacedInline(f[n])

(***************************************************************************)
(* C23.  Destroying an empty or moved-from container does nothing.         *)
(***************************************************************************)
\* C23: under every configuration the destruction of a container that is
\* empty or moved-from (boolean false) runs no destructor of a callable,
\* deallocates nothing and makes no call through a null operation reference.
C23_DestroyEmptyDoesNothing ==
    [][\A n \in Containers :
         (Step({"destroy"}, n, n) /\ f[n].life = "live" /\ ~to_bool(f[n])) =>
           /\ log'.step = <<>>
           /\ heap' = heap
           /\ last'.ub = ""]_vars

(***************************************************************************)
(* C24.  The branches of the dispatcher marked unreachable.                *)
(***************************************************************************)
\* C24: no sequence of public operations executes a dispatcher branch marked
\* unreachable: Move runs only for a movable configuration and a move
\* constructible stored type, Copy only for a copyable configuration and a
\* copy constructible stored type, the introspection branches only when
\* introspection is enabled.
C24_NoUnreachableBranch == last.ub # "unreachable"

(***************************************************************************)
(* C25.  With the fast path, the operation reference tells what the        *)
(* invocation reference is.                                                *)
(***************************************************************************)
\* C25: with the function-pointer fast path enabled, a boolean-true container
\* has a null operation reference exactly when its invocation reference is a
\* directly stored plain function pointer, whatever construction, copy, move,
\* assignment and swap produced it; a call of a container holding a function
\* pointer calls that function, and a trampoline is never called as one.
C25_PairedReferences ==
    \A n \in Containers :
      (cfg.optimize_for_func_ptrs /\ Bound(f[n])) =>
        /\ f[n].actions.k = "null" <=> f[n].call.k = "fptr"
        /\ f[n].actions.k # "null" <=> f[n].call.k = "caller"
        /\ f[n].call.k = "fptr" =>
             \A x \in ArgsOf(sig) :
               call_operator(cfg, f[n], heap, x) = {Val(Apply(FnVal(f[n].call.t), x))}

C25_Witness ==
    /\ cfg.optimize_for_func_ptrs /\ last.ub = ""
    /\ last.op = "swap" /\ last.a = "a" /\ last.b = "b"
    /\ Bound(f["a"]) /\ f["a"].call.k = "caller" /\ f["a"].actions.k = "multi"
    /\ Bound(f["b"]) /\ f["b"].call.k = "fptr" /\ f["b"].actions.k = "null"

(***************************************************************************)
(* C26.  Where boolean-false containers come from.                         *)
(***************************************************************************)
\* the container is alive and converts to false
BooleanFalse(self) == self.life = "live" /\ ~to_bool(self)

\* C26: when the configuration does not allow emptiness no constructor
\* yields a container with a null invocation reference, and a container
\* becomes boolean-false only as the source of a move.
C26_FalseOnlyWhenAllowed ==
    [][\A n \in Containers :
         (~cfg.can_be_empty /\ BooleanFalse(f'[n]) /\ ~BooleanFalse(f[n])) =>
           /\ f[n].life = "live"
           /\ last'.op \in {"move_construct", "move_assign"}
           /\ last'.b = n]_vars

(***************************************************************************)
(* C27.  No object is abandoned in a cell.                                 *)
(***************************************************************************)
\* C27: an object constructed inside a storage cell (by construction from a
\* callable, by an inline move or by an inline copy) has its destructor run
\* by the time its container is destroyed: the destruction of a container
\* whose cell holds an object, the one left behind by a move included, ends
\* that object.
C27_NothingAbandoned ==
    [][\A n \in Containers :
         (Step({"destroy"}, n, n) /\ f[n].life = "live" /\ f[n].data.k = "obj") =>
           \A w \in Wilds({n}), u \in Falls({n}) :
             LET r == destructor(cfg, f[n], heap, w, u) IN
             r.ub = "" /\ r.mem.k = "raw"]_vars

(***************************************************************************)
(* C28.  A copy assignment whose duplication fails.                        *)
(***************************************************************************)
\* C28: when duplicating the source's callable fails during copy assignment
\* (its copy constructor or the heap allocation raises) the failure reaches
\* the caller, the source is unchanged, and the target is left empty
\* (boolean false, no-op operation reference) with the callable it held
\* destroyed exactly once, so that destroying the target later destroys
\* nothing again.
C28_FailedCopyAssignLeavesEmpty ==
    [][\A n, o \in Containers :
         Step({"copy_assign_failed"}, n, o) =>
           /\ last'.ub = ""
           /\ f'[o] = f[o]
           /\ BooleanFalse(f'[n]) /\ f'[n].actions = noop_actions
           /\ Keeps(f[n], heap) =>
                /\ log'.step = <<Ev("dtor", f[n].actions.t, Kept(f[n], heap))>>
                /\ f[n].data.k = "ptr" => heap'[f[n].data.a].st = "freed"
           /\ LET r == destructor(cfg, f'[n], heap', 0, TRUE) IN
              r.ev = <<>> /\ r.heap = heap' /\ r.ub = ""]_vars
====
